---------------------------- MODULE Spec2Model ----------------------------
(***************************************************************************)
(* Model of src/src/SoundPianoTuner_backup.tsx: the autocorrelation pitch  *)
(* detector (detectPitchAutoCorrelation), the note helpers (freqToMidi,    *)
(* midiToName, centsOff), the nearest-guitar-string scan, and the          *)
(* start / stop / loop session of the SoundPianoTuner component.           *)
(*                                                                         *)
(* Number representation.  The source computes in IEEE doubles and stores  *)
(* its buffers as float32; so does the model, with the doubles built from  *)
(* TLC's 32-bit integers:                                                  *)
(*   - a double is a record [s, m, e] of sign, 53-bit mantissa and         *)
(*     exponent, with Infinity, -Infinity and NaN as values of their own,  *)
(*     and +, -, *, /, sqrt round to nearest, ties to even;                *)
(*   - an element of a Float32Array is a double rounded to a float32;      *)
(*   - Math.cos, Math.sin, Math.log2 and Math.pow are the routines of     *)
(*     the JavaScript runtime (base/ieee754.cc), step by step in double    *)
(*     arithmetic;                                                         *)
(*   - the frequency the detector returns and the helpers take is a        *)
(*     double;                                                             *)
(*   - the absent value (null) is the empty tuple, a present value v is    *)
(*     the one-element tuple <<v>>.                                        *)
(***************************************************************************)
EXTENDS Integers, Sequences, FiniteSets, TLC

(***************************************************************************)
(* Representation                                                          *)
(***************************************************************************)
\* A sample of the model's windows is an integer s that stands for the
\* float32 s / SampleUnit; a frequency written as a decimal (the freq
\* column of GUITAR_STD, the frequencies the helpers are tried on) is an
\* integer n that stands for the double of n / FreqUnit Hz.
SampleUnit == 1024
FreqUnit == 100000
Null == <<>>
Some(v) == <<v>>
Abs(x) == IF x < 0 THEN -x ELSE x
Pow2(n) == 2 ^ n

RECURSIVE BitLenW(_, _)
\* The number of binary digits of n, for 0 <= n < 2^w and w a power of 2.
BitLenW(n, w) ==
    IF w = 1 THEN n
    ELSE LET h == w \div 2
         IN  IF n >= Pow2(h) THEN h + BitLenW(n \div Pow2(h), h)
             ELSE BitLenW(n, h)
BitLen(n) == BitLenW(n, 32)

(***************************************************************************)
(* Long naturals.  The mantissa of a double has 53 bits, more than a       *)
(* 32-bit integer holds: the long <<hi, lo>> stands for hi * 2^27 + lo,    *)
(* with lo in 0 .. 2^27 - 1.                                               *)
(***************************************************************************)
LBase == 134217728
LNorm(hi, lo) == <<hi + lo \div LBase, lo % LBase>>
LAdd(a, b) == LNorm(a[1] + b[1], a[2] + b[2])
\* a - b for a >= b.
LSub(a, b) == LNorm(a[1] - b[1], a[2] - b[2])
LLess(a, b) == a[1] < b[1] \/ (a[1] = b[1] /\ a[2] < b[2])
LTwice(a) == LNorm(2 * a[1], 2 * a[2])
LBits(a) == IF a[1] > 0 THEN 27 + BitLen(a[1]) ELSE BitLen(a[2])

RECURSIVE LShl(_, _)
\* a * 2^k, for a product below 2^58.
LShl(a, k) ==
    IF k >= 27 THEN LShl(<<a[1] * LBase + a[2], 0>>, k - 27)
    ELSE LET cut == Pow2(27 - k)
         IN  <<a[1] * Pow2(k) + a[2] \div cut, (a[2] % cut) * Pow2(k)>>

RECURSIVE LShr(_, _)
\* floor(a / 2^k).
LShr(a, k) ==
    IF k >= 27 THEN LShr(<<a[1] \div LBase, a[1] % LBase>>, k - 27)
    ELSE LET cut == Pow2(k)
         IN  <<a[1] \div cut, (a[1] % cut) * Pow2(27 - k) + a[2] \div cut>>

(***************************************************************************)
(* IEEE doubles.  A double is [s, m, e].  For s in {-1, 0, 1} it is the    *)
(* finite number s * m * 2^e: s is the sign and m a long in                *)
(* 2^52 .. 2^53 - 1 (<<0, 0>> for zero; a subnormal keeps this form, with  *)
(* low bits of m zero).  s = 3 is Infinity, s = -3 is -Infinity and s = 2  *)
(* is NaN.  The zero has no sign: -0 and 0 are one value.  Every operation *)
(* rounds to nearest, ties to even, as the hardware does.  A float32, an   *)
(* element of a Float32Array, is a double of 24 significant bits in the    *)
(* exponent range of a float32.                                            *)
(***************************************************************************)
DZero == [s |-> 0, m |-> <<0, 0>>, e |-> 0]
NaN == [s |-> 2, m |-> <<0, 0>>, e |-> 0]
\* Infinity for s = 1 and -Infinity for s = -1.
Infinite(s) == [s |-> 3 * s, m |-> <<0, 0>>, e |-> 0]
isFinite(x) == x.s \in {-1, 0, 1}
Sign(x) == IF x.s > 0 THEN 1 ELSE IF x.s < 0 THEN -1 ELSE 0

\* s * r * 2^e with the mantissa r shifted by n bits into 2^52 .. 2^53 - 1;
\* the bits a shift to the right drops are zeros.
DShifted(s, r, e, n) ==
    [s |-> s, m |-> IF n > 0 THEN LShr(r, n) ELSE LShl(r, -n), e |-> e + n]
\* A number whose leading bit is above 2^emax is an infinity.
DNormal(s, r, e, emax) ==
    IF r = <<0, 0>> THEN DZero
    ELSE IF e + LBits(r) - 1 > emax THEN Infinite(s)
    ELSE DShifted(s, r, e, LBits(r) - 53)

\* Round to nearest, ties to even: the quotient q goes up when the remainder
\* is above the half, or is the half and q is odd.
RoundsUp(q, rem, half) == LLess(half, rem) \/ (rem = half /\ q[2] % 2 = 1)

\* s * m * 2^e rounded at the bit k > 0 of m, for q = floor(m / 2^k).
DRoundCut(s, m, e, k, q, emax) ==
    DNormal(s,
            IF RoundsUp(q, LSub(m, LShl(q, k)), LShl(<<0, 1>>, k - 1))
            THEN LAdd(q, <<0, 1>>) ELSE q,
            e + k, emax)
\* A number below half the unit 2^(e + k) is rounded to zero.
DRoundAt(s, m, e, k, bits, emax) ==
    IF k <= 0 THEN DNormal(s, m, e, emax)
    ELSE IF k > bits THEN DZero
    ELSE DRoundCut(s, m, e, k, LShr(m, k), emax)

\* The number nearest to s * m * 2^e in a format of p significant bits and
\* the exponents emin .. emax, for a long m > 0 of `bits' bits, at most 57:
\* the unit of the rounding is 2^(e + bits - p), and 2^(emin - p + 1) in the
\* subnormal range.
DRoundIn(s, m, e, bits, p, emin, emax) ==
    DRoundAt(s, m, e,
             IF bits > emin + 1 - e THEN bits - p ELSE emin - p + 1 - e,
             bits, emax)

\* The double nearest to s * m * 2^e.
DRound(s, m, e) == DRoundIn(s, m, e, LBits(m), 53, -1022, 1023)

\* Math.fround, the store into a Float32Array.
Float32(x) ==
    IF x.s = 0 \/ ~isFinite(x) THEN x
    ELSE DRoundIn(x.s, x.m, x.e, 53, 24, -126, 127)

\* The double of an integer n, |n| < 2^31.
DInt(n) ==
    IF n = 0 THEN DZero
    ELSE DRound(IF n < 0 THEN -1 ELSE 1, LNorm(0, Abs(n)), 0)

\* The sample s / SampleUnit = s / 2^10, for an integer s.
DSample(s) == IF s = 0 THEN DZero ELSE [DInt(s) EXCEPT !.e = @ - 10]

DNeg(x) == IF x.s = 2 THEN x ELSE [x EXCEPT !.s = -x.s]
DAbs(x) == IF x.s = 2 THEN x ELSE [x EXCEPT !.s = Abs(x.s)]
\* x * 2^k, as the products 2 * x and 0.5 * x.
DTimesPow2(x, k) ==
    IF x.s = 0 \/ ~isFinite(x) THEN x ELSE DRound(x.s, x.m, x.e + k)

\* |x| < |y| for finite x and y.
DSmaller(x, y) ==
    IF y.s = 0 THEN FALSE
    ELSE IF x.s = 0 THEN TRUE
    ELSE x.e < y.e \/ (x.e = y.e /\ LLess(x.m, y.m))

\* x < y; a comparison with NaN is false, and the signs order the
\* infinities: -3 < -1 < 0 < 1 < 3.
DLess(x, y) ==
    /\ x.s # 2
    /\ y.s # 2
    /\ IF x.s # y.s THEN x.s < y.s
       ELSE IF x.s = 1 THEN DSmaller(x, y)
       ELSE IF x.s = -1 THEN DSmaller(y, x)
       ELSE FALSE

\* The mantissa y3 shifted d bits to the right, with one sticky bit for
\* what the shift lost: the last bit is set when a lost bit was.
Aligned(y3, d) ==
    IF d > 57 THEN <<0, 1>>
    ELSE IF LShl(LShr(y3, d), d) # y3 /\ LShr(y3, d)[2] % 2 = 0
    THEN LAdd(LShr(y3, d), <<0, 1>>)
    ELSE LShr(y3, d)
\* The sum or the difference of the aligned mantissas, rounded.
AddAligned(x, y, big, small) ==
    IF x.s # y.s /\ big = small THEN DZero
    ELSE DRound(x.s,
                IF x.s = y.s THEN LAdd(big, small) ELSE LSub(big, small),
                x.e - 3)

\* x + y for |x| >= |y| > 0.  Both mantissas get three more bits; the bits
\* of y that the alignment shifts out are kept as one sticky bit.
DAddOrdered(x, y) ==
    AddAligned(x, y, LShl(x.m, 3), Aligned(LShl(y.m, 3), x.e - y.e))

\* The + and - of doubles.
DAdd(x, y) ==
    IF x.s = 2 \/ y.s = 2 THEN NaN
    ELSE IF ~isFinite(x) THEN (IF y.s = -x.s THEN NaN ELSE x)
    ELSE IF ~isFinite(y) THEN y
    ELSE IF y.s = 0 THEN x
    ELSE IF x.s = 0 THEN y
    ELSE DAddOrdered(IF DSmaller(x, y) THEN y ELSE x,
                     IF DSmaller(x, y) THEN x ELSE y)
DSub(x, y) == DAdd(x, DNeg(y))

\* One more binary digit of a quotient by d: st.q is the quotient so far and
\* st.r < d the remainder.
DivStep(st, d) ==
    LET r2 == LTwice(st.r)
    IN  IF LLess(r2, d) THEN [q |-> LTwice(st.q), r |-> r2]
        ELSE [q |-> LAdd(LTwice(st.q), <<0, 1>>), r |-> LSub(r2, d)]

RECURSIVE DivBits(_, _, _)
\* n more digits: those of the first half of n and then the others, which
\* are zeros once the remainder is zero.
DivBits(st, d, n) ==
    IF n = 1 THEN DivStep(st, d)
    ELSE LET h == n \div 2
             first == DivBits(st, d, h)
         IN  IF first.r = <<0, 0>>
             THEN [q |-> LShl(first.q, n - h), r |-> first.r]
             ELSE DivBits(first, d, n - h)

DivRounded(x, y, dv) ==
    DRound(x.s * y.s,
           LAdd(LTwice(dv.q), <<0, IF dv.r = <<0, 0>> THEN 0 ELSE 1>>),
           x.e - y.e - 55)

\* The / of doubles: 55 digits of the quotient of the mantissas, the first
\* of them 1 when the mantissa of x is not below that of y, and a sticky bit
\* for the remainder.  x / 0 is an infinity of the sign of x, and 0 / 0
\* and Infinity / Infinity are NaN.
DDiv(x, y) ==
    IF x.s = 2 \/ y.s = 2 THEN NaN
    ELSE IF ~isFinite(x)
    THEN (IF ~isFinite(y) THEN NaN
          ELSE Infinite(Sign(x) * (IF y.s < 0 THEN -1 ELSE 1)))
    ELSE IF ~isFinite(y) THEN DZero
    ELSE IF y.s = 0 THEN (IF x.s = 0 THEN NaN ELSE Infinite(x.s))
    ELSE IF x.s = 0 THEN DZero
    ELSE DivRounded(x, y,
                    DivBits(IF LLess(x.m, y.m)
                            THEN [q |-> <<0, 0>>, r |-> x.m]
                            ELSE [q |-> <<0, 1>>, r |-> LSub(x.m, y.m)],
                            y.m, 54))

(***************************************************************************)
(* Products.  A mantissa is cut into four limbs of 14 bits, most           *)
(* significant first; the product of two mantissas has eight.              *)
(***************************************************************************)
Limb == 16384

\* The limbs of a long below 2^57.
Limbs4(m) ==
    << m[1] \div 32768, (m[1] \div 2) % Limb,
       (m[1] % 2) * 8192 + m[2] \div Limb, m[2] % Limb >>

\* The long of four limbs.
Long4(x1, x2, x3, x4) ==
    <<x1 * 32768 + x2 * 2 + x3 \div 8192, (x3 % 8192) * Limb + x4>>

\* The limb i of l, zero beyond its end.
LimbAt(l, i) == IF i <= Len(l) THEN l[i] ELSE 0

\* The double nearest to s * l * 2^u, for the number l > 0 given by its limbs
\* from the limb p on (the first that is not zero): 56 bits of it and a
\* sticky bit for the others.
GatherFrom(s, l, u, p) ==
    LET b == BitLen(l[p])
        next == LimbAt(l, p + 4)
        top == LAdd(LShl(Long4(l[p], LimbAt(l, p + 1), LimbAt(l, p + 2),
                               LimbAt(l, p + 3)), 14 - b),
                    <<0, next \div Pow2(b)>>)
        lost == next % Pow2(b) # 0 \/ \E i \in (p + 5)..Len(l) : l[i] # 0
        q == LAdd(LTwice(top), <<0, IF lost THEN 1 ELSE 0>>)
    IN  DRound(s, q, u + 14 * (Len(l) - p - 4) + b - 1)

Gather(s, l, u) ==
    IF \A i \in 1..Len(l) : l[i] = 0 THEN DZero
    ELSE GatherFrom(s, l, u, CHOOSE p \in 1..Len(l) :
                                 l[p] # 0 /\ \A i \in 1..(p - 1) : l[i] = 0)

\* The eight limbs of the product of two mantissas.
MulLimbs(a, b) ==
    LET k8 == a[4] * b[4]
        k7 == a[3] * b[4] + a[4] * b[3] + k8 \div Limb
        k6 == a[2] * b[4] + a[3] * b[3] + a[4] * b[2] + k7 \div Limb
        k5 == a[1] * b[4] + a[2] * b[3] + a[3] * b[2] + a[4] * b[1]
                + k6 \div Limb
        k4 == a[1] * b[3] + a[2] * b[2] + a[3] * b[1] + k5 \div Limb
        k3 == a[1] * b[2] + a[2] * b[1] + k4 \div Limb
        k2 == a[1] * b[1] + k3 \div Limb
    IN  << k2 \div Limb, k2 % Limb, k3 % Limb, k4 % Limb, k5 % Limb,
           k6 % Limb, k7 % Limb, k8 % Limb >>

\* The * of doubles.
DMul(x, y) ==
    IF x.s = 2 \/ y.s = 2 THEN NaN
    ELSE IF ~isFinite(x) \/ ~isFinite(y)
    THEN (IF x.s = 0 \/ y.s = 0 THEN NaN ELSE Infinite(Sign(x) * Sign(y)))
    ELSE IF x.s = 0 \/ y.s = 0 THEN DZero
    ELSE Gather(x.s * y.s, MulLimbs(Limbs4(x.m), Limbs4(y.m)), x.e + y.e)

(***************************************************************************)
(* Math.sqrt, digit by digit: the root of the radicand m * 2^56 (m * 2^57  *)
(* for an odd exponent) has 55 digits.  A step brings the next two bits of *)
(* the radicand into the remainder.                                        *)
(***************************************************************************)
\* The two bits of the long m at the positions 2j+1 and 2j.
BitPair(m, j) == LShr(m, 2 * j)[2] % 4

\* The step that reads the pair j of m (pairs below 0 are zero).
SqrtStep(st, m, j) ==
    LET pair == IF j >= 0 THEN BitPair(m, j) ELSE 0
        rem == LAdd(LTwice(LTwice(st.rem)), <<0, pair>>)
        trial == LAdd(LTwice(LTwice(st.root)), <<0, 1>>)
    IN  IF LLess(rem, trial) THEN [root |-> LTwice(st.root), rem |-> rem]
        ELSE [root |-> LAdd(LTwice(st.root), <<0, 1>>),
              rem |-> LSub(rem, trial)]

RECURSIVE SqrtBits(_, _, _, _)
\* The n steps that read the pairs j, j - 1, ..; once the radicand is read
\* and the remainder is zero the other digits are zeros.
SqrtBits(st, m, j, n) ==
    IF n = 1 THEN SqrtStep(st, m, j)
    ELSE LET h == n \div 2
             first == SqrtBits(st, m, j, h)
         IN  IF first.rem = <<0, 0>> /\ j - h < 0
             THEN [root |-> LShl(first.root, n - h), rem |-> first.rem]
             ELSE SqrtBits(first, m, j - h, n - h)

SqrtRounded(st, e) ==
    DRound(1, LAdd(LTwice(st.root),
                   <<0, IF st.rem = <<0, 0>> THEN 0 ELSE 1>>), e \div 2 - 29)
DSqrt(x) ==
    IF x.s = 2 \/ x.s < 0 THEN NaN
    ELSE IF x.s = 3 THEN x
    ELSE IF x.s = 0 THEN DZero
    ELSE SqrtRounded(SqrtBits([root |-> <<0, 0>>, rem |-> <<0, 0>>],
                              IF x.e % 2 = 1 THEN LTwice(x.m) ELSE x.m,
                              26, 55),
                     IF x.e % 2 = 1 THEN x.e - 1 ELSE x.e)

\* The double of the decimal n / FreqUnit, as the source text of a number
\* with at most five decimals is read.
DUnits(n) == DDiv(DInt(n), DInt(FreqUnit))

(***************************************************************************)
(* Math.cos and Math.sin, as the runtime of the program computes them: the *)
(* fdlibm routines (V8 base/ieee754.cc), every step of them in double      *)
(* arithmetic.  The argument is reduced to y0 + y1 in [-pi/4, pi/4] and n  *)
(* quarter turns (__ieee754_rem_pio2), and a polynomial gives the cosine   *)
(* or the sine of the rest (__kernel_cos, __kernel_sin).  The reduction is *)
(* that of the arguments up to 2^19 * pi/2; the angle of line 49 is at     *)
(* most 2 * pi.                                                            *)
(***************************************************************************)
\* Math.PI.
PI == [s |-> 1, m |-> <<52707178, 71576856>>, e |-> -51]

\* The high word of the bits of |x|, x finite: the exponent field and the 20
\* leading bits of the fraction.  A subnormal (e < -1074 with the mantissa
\* normalised) has the exponent field 0 and the fraction m / 2^(-1074 - e).
HighWord(x) ==
    IF x.s = 0 THEN 0
    ELSE IF x.e < -1074 THEN LShr(x.m, -1042 - x.e)[2]
    ELSE (x.e + 1075) * 1048576 + (x.m[1] \div 32 - 1048576)

\* The integer part of a double 0 <= x < 2^31.
DTrunc(x) ==
    IF x.s = 0 \/ x.e < -52 THEN 0
    ELSE LShr(x.m, -x.e)[1] * 134217728 + LShr(x.m, -x.e)[2]

\* The coefficients C1 .. C6 of __kernel_cos and S1 .. S6 of __kernel_sin.
CosCoef ==
    << [s |-> 1, m |-> <<44739242, 89478476>>, e |-> -57],
       [s |-> -1, m |-> <<47721858, 113332599>>, e |-> -62],
       [s |-> 1, m |-> <<54539267, 30086544>>, e |-> -68],
       [s |-> -1, m |-> <<38783472, 10244781>>, e |-> -74],
       [s |-> 1, m |-> <<37606359, 95728068>>, e |-> -81],
       [s |-> -1, m |-> <<52387127, 109590740>>, e |-> -89] >>
SinCoef ==
    << [s |-> -1, m |-> <<44739242, 89478473>>, e |-> -55],
       [s |-> 1, m |-> <<35791394, 17889446>>, e |-> -59],
       [s |-> -1, m |-> <<54539267, 29450709>>, e |-> -65],
       [s |-> 1, m |-> <<48479338, 129105533>>, e |-> -71],
       [s |-> -1, m |-> <<56409297, 36412651>>, e |-> -78],
       [s |-> 1, m |-> <<45819723, 47175036>>, e |-> -85] >>

RECURSIVE Poly(_, _, _)
\* c[k] + z * (c[k + 1] + z * ( .. + z * c[Len(c)])).
Poly(z, c, k) ==
    IF k = Len(c) THEN c[k] ELSE DAdd(c[k], DMul(z, Poly(z, c, k + 1)))

\* __kernel_cos(x, y), the cosine of x + y for |x| <= pi/4 and the tail y of
\* x: with z = x * x and r = z * (C1 + z * ( .. )), 1 - (z/2 - (z*r - x*y))
\* below 0.3 (high word 0x3FD33333), and above it the same sum with
\* qx, about |x|/4 (0.28125 above the high word 0x3FE90000), taken from
\* both 1 and z/2.  Below 2^-27 (high word 0x3E400000) the cosine is 1.
KernelCosQ(x, y, z, r, qx) ==
    DSub(DSub(DInt(1), qx),
         DSub(DSub(DTimesPow2(z, -1), qx), DSub(DMul(z, r), DMul(x, y))))
KernelCosR(x, y, z, r) ==
    IF HighWord(x) < 1070805811
    THEN DSub(DInt(1),
              DSub(DTimesPow2(z, -1), DSub(DMul(z, r), DMul(x, y))))
    ELSE KernelCosQ(x, y, z, r,
                    IF HighWord(x) > 1072234496
                    THEN [s |-> 1, m |-> <<37748736, 0>>, e |-> -54]
                    ELSE [s |-> 1, m |-> <<(x.m[1] \div 32) * 32, 0>>,
                          e |-> x.e - 2])
KernelCos(x, y) ==
    IF HighWord(x) < 1044381696 THEN DInt(1)
    ELSE KernelCosR(x, y, DMul(x, x),
                    DMul(DMul(x, x), Poly(DMul(x, x), CosCoef, 1)))

\* __kernel_sin(x, y, iy), the sine of x + y; iy = 0 says that y is 0.  With
\* z = x * x, v = z * x and r = S2 + z * (S3 + z * ( .. )).
KernelSinR(x, y, iy, z, v, r) ==
    IF iy = 0 THEN DAdd(x, DMul(v, DAdd(SinCoef[1], DMul(z, r))))
    ELSE DSub(x, DSub(DSub(DMul(z, DSub(DTimesPow2(y, -1), DMul(v, r))), y),
                      DMul(v, SinCoef[1])))
KernelSin(x, y, iy) ==
    IF HighWord(x) < 1044381696 THEN x
    ELSE KernelSinR(x, y, iy, DMul(x, x), DMul(DMul(x, x), x),
                    Poly(DMul(x, x), SinCoef, 2))

\* 2/pi, and pi/2 in three pieces of 33 bits with the tail after each piece:
\* pio2_1, pio2_2, pio2_3 and pio2_1t, pio2_2t, pio2_3t.
invpio2 == [s |-> 1, m |-> <<42722829, 97110147>>, e |-> -53]
Pio2Head ==
    << [s |-> 1, m |-> <<52707178, 71303168>>, e |-> -52],
       [s |-> 1, m |-> <<35032099, 39845888>>, e |-> -86],
       [s |-> 1, m |-> <<40055109, 100663296>>, e |-> -121] >>
Pio2Tail ==
    << [s |-> 1, m |-> <<35032099, 40002353>>, e |-> -86],
       [s |-> 1, m |-> <<40055109, 100888691>>, e |-> -121],
       [s |-> 1, m |-> <<57701188, 86002113>>, e |-> -156] >>
\* The high words of n * pi/2 for n = 1 .. 32.
npio2_hw ==
    << 1073291771, 1074340347, 1074977148, 1075388923, 1075800698, 1076025724,
       1076231611, 1076437499, 1076643386, 1076849274, 1076971356, 1077074300,
       1077177244, 1077280187, 1077383131, 1077486075, 1077589019, 1077691962,
       1077794906, 1077897850, 1077968460, 1078019932, 1078071404, 1078122876,
       1078174348, 1078225820, 1078277292, 1078328763, 1078380235, 1078431707,
       1078483179, 1078534651 >>

\* The result of a reduction: x = n * pi/2 + y0 + y1; iy = 0 when nothing
\* was taken from x.
Reduced(n, r, w, y0) ==
    [n |-> n, y0 |-> y0, y1 |-> DSub(DSub(r, y0), w), iy |-> 1]

RECURSIVE RemRound(_, _, _, _, _)
\* The rounds 2 and 3 of the reduction of the medium arguments.  The piece
\* k of pi/2 is taken from the rest t of the round before: w = fn * pio2_k,
\* r = t - w, and then w = fn * pio2_kt - ((t - r) - w) and y0 = r - w.  The
\* exponent fields of x and y0 tell the bits the cancellation took: a third
\* round follows the second when they are more than 49.
RemRoundEnd(ix, n, fn, k, r, w, y0) ==
    IF k = 3 \/ ix \div 1048576 - HighWord(y0) \div 1048576 <= 49
    THEN Reduced(n, r, w, y0)
    ELSE RemRound(ix, n, fn, 3, r)
RemRoundRest(ix, n, fn, k, t, w, r) ==
    RemRoundEnd(ix, n, fn, k, r,
                DSub(DMul(fn, Pio2Tail[k]), DSub(DSub(t, r), w)),
                DSub(r, DSub(DMul(fn, Pio2Tail[k]), DSub(DSub(t, r), w))))
RemRound(ix, n, fn, k, t) ==
    RemRoundRest(ix, n, fn, k, t, DMul(fn, Pio2Head[k]),
                 DSub(t, DMul(fn, Pio2Head[k])))

\* The first round, r = t - fn * pio2_1 and w = fn * pio2_1t: y0 = r - w is
\* good when n < 32 and t is not near n * pi/2 (its high word is not that of
\* the table), or when y0 lost at most 16 bits.
RemFirstEnd(ix, n, fn, r, w, y0) ==
    IF \/ (n < 32 /\ ix # npio2_hw[n])
       \/ ix \div 1048576 - HighWord(y0) \div 1048576 <= 16
    THEN Reduced(n, r, w, y0)
    ELSE RemRound(ix, n, fn, 2, r)
\* The medium arguments: n = (int)(t * invpio2 + 0.5) and fn = (double)n.
RemMedium(t, ix, n) ==
    RemFirstEnd(ix, n, DInt(n), DSub(t, DMul(DInt(n), Pio2Head[1])),
                DMul(DInt(n), Pio2Tail[1]),
                DSub(DSub(t, DMul(DInt(n), Pio2Head[1])),
                     DMul(DInt(n), Pio2Tail[1])))

\* The arguments below 3 * pi/4 (high word 0x4002D97C): one quarter turn is
\* taken from z = t - pio2_1, in two pieces when t is near pi/2 (high word
\* 0x3FF921FB).
RemNear(z, tail) == Reduced(1, z, tail, DSub(z, tail))

\* __ieee754_rem_pio2 for t >= 0 with the high word ix; up to pi/4 (high
\* word 0x3FE921FB) nothing is taken.
RemPio2Abs(t, ix) ==
    IF ix <= 1072243195
    THEN [n |-> 0, y0 |-> t, y1 |-> DZero, iy |-> 0]
    ELSE IF ix < 1073928572
    THEN (IF ix # 1073291771
          THEN RemNear(DSub(t, Pio2Head[1]), Pio2Tail[1])
          ELSE RemNear(DSub(DSub(t, Pio2Head[1]), Pio2Head[2]),
                       Pio2Tail[2]))
    ELSE RemMedium(t, ix,
                   DTrunc(DAdd(DMul(t, invpio2), DTimesPow2(DInt(1), -1))))

\* The reduction of -t is that of t with the signs changed.
RemSigned(s, r) ==
    IF s >= 0 THEN r
    ELSE [n |-> -r.n, y0 |-> DNeg(r.y0), y1 |-> DNeg(r.y1), iy |-> r.iy]
RemPio2(x) == RemSigned(x.s, RemPio2Abs(DAbs(x), HighWord(x)))

\* The sine of r.n + k quarter turns and the rest of r: the kernels
\* alternate from quadrant to quadrant and the sign changes every second.
TrigSigned(q, v) == IF q % 4 >= 2 THEN DNeg(v) ELSE v
TrigQuadrant(r, k) ==
    TrigSigned(r.n + k,
               IF (r.n + k) % 2 = 0 THEN KernelSin(r.y0, r.y1, r.iy)
               ELSE KernelCos(r.y0, r.y1))

\* Math.cos(x): the sine a quarter turn on.  NaN for NaN and the infinities.
MathCos(x) == IF ~isFinite(x) THEN NaN ELSE TrigQuadrant(RemPio2(x), 1)

\* Math.sin(x).
MathSin(x) == IF ~isFinite(x) THEN NaN ELSE TrigQuadrant(RemPio2(x), 0)

(***************************************************************************)
(* The pitch detector, lines 46-87.  A buffer is a sequence of float32     *)
(* values, the element i of the code at index i + 1.                       *)
(***************************************************************************)
\* The sequence of the values of f, each computed once.
Stored(f) == <<>> \o f

\* new Float32Array of the samples w, integers in units of 1/SampleUnit.
Float32Array(w) == Stored([k \in 1..Len(w) |-> Float32(DSample(w[k]))])

\* Line 49: 0.5 * (1 - Math.cos((2 * Math.PI * i) / (buf.length - 1))).  With
\* one sample the angle is 0/0.
Hann(i, size) ==
    LET angle == DDiv(DMul(DTimesPow2(PI, 1), DInt(i)), DInt(size - 1))
    IN  DTimesPow2(DSub(DInt(1), MathCos(angle)), -1)

\* The coefficients of a window of n samples, and those of the lengths the
\* model runs most.
HannRow(n) == Stored([k \in 1..n |-> Hann(k - 1, n)])
HannTable == [n \in 1..8 |-> HannRow(n)]
HannWindow(size) ==
    IF size \in DOMAIN HannTable THEN HannTable[size] ELSE HannRow(size)

\* Lines 48-50: the buffer after the in-place windowing, buf[i] *= c stored
\* as a float32.
Windowed(buf) ==
    LET c == HannWindow(Len(buf))
    IN  Stored([k \in 1..Len(buf) |-> Float32(DMul(buf[k], c[k]))])

RECURSIVE SumRange(_, _, _, _, _)
\* Lines 58-59 and 52: sum += buf[i] * buf[i + lag] for i = lo .. hi in
\* increasing order, entered with sum.  The sum over more than one i is the
\* sum over the first half followed by that over the second half (the test on
\* `first` makes TLC finish the first half before the second; NaN + x is
\* NaN).
SumRange(sum, buf, lag, lo, hi) ==
    IF lo > hi THEN sum
    ELSE IF lo = hi THEN DAdd(sum, DMul(buf[lo], buf[lo + lag]))
    ELSE LET mid == (lo + hi) \div 2
             first == SumRange(sum, buf, lag, lo, mid)
         IN  IF first.s = 2 THEN first
             ELSE SumRange(first, buf, lag, mid + 1, hi)

\* Line 59: the sum over i, i + lag < size, of buf[i] * buf[i + lag].
SumProducts(buf, lag) == SumRange(DZero, buf, lag, 1, Len(buf) - lag)

\* Line 52: buf.reduce((s, x) => s + x * x, 0).
SumSquares(buf) == SumProducts(buf, 0)

\* The threshold 0.008 of line 53.
Threshold == DDiv(DInt(8), DInt(1000))

\* A gate that compares the sum of squares, not their mean, with the
\* threshold (the division by size forgotten).
RmsBelowThreshold_NoMean(buf) ==
    DLess(DSqrt(SumSquares(buf)), Threshold)

\* Lines 52-53: rms < 0.008.  An empty buffer gives 0/0 and a one-sample
\* buffer NaN: NaN < 0.008 is false.
RmsBelowThreshold(buf) ==
    DLess(DSqrt(DDiv(SumSquares(buf), DInt(Len(buf)))), Threshold)

\* Lines 56-61: ac[lag] for lag = 0 .. size-1, stored at index lag + 1 as a
\* float32.
AutoCorrelation(buf) ==
    Stored([k \in 1..Len(buf) |-> Float32(SumProducts(buf, k - 1))])

\* Lines 66-67.
MinLag(sampleRate) == sampleRate \div 1000
MaxLag(sampleRate) == sampleRate \div 70
Min(a, b) == IF a < b THEN a ELSE b

\* Lines 64 and 70: peakVal is -Infinity before the first peak (peak = -1)
\* and ac[peakLag] after it.
peakVal(ac, peak) == IF peak = -1 THEN Infinite(-1) ELSE ac[peak + 1]

\* A comparison that lets a later lag of equal value replace the peak.
ExceedsPeak_OrEqual(ac, lag, peak) ==
    /\ lag >= 0
    /\ lag < Len(ac)
    /\ ac[lag + 1].s # 2
    /\ peakVal(ac, peak).s # 2
    /\ ~DLess(ac[lag + 1], peakVal(ac, peak))

\* Line 69: ac[lag] > peakVal.  A lag outside the array reads undefined,
\* and undefined and NaN compare false; an entry Infinity is above every
\* other peakVal.
ExceedsPeak(ac, lag, peak) ==
    /\ lag >= 0
    /\ lag < Len(ac)
    /\ DLess(peakVal(ac, peak), ac[lag + 1])

RECURSIVE PeakScan(_, _, _, _)
\* Lines 63-73: the scan of the lags lag .. hi - 1 in increasing order,
\* entered with peakLag = peak and returning peakLag.  A scan of more than
\* one lag is the scan of its first half followed by that of its second half
\* (the test on `first` makes TLC finish the first half before the second).
PeakScan(ac, lag, hi, peak) ==
    IF lag >= hi THEN peak
    ELSE IF hi = lag + 1
    THEN (IF ExceedsPeak(ac, lag, peak) THEN lag ELSE peak)
    ELSE LET mid == (lag + hi) \div 2
             first == PeakScan(ac, lag, mid, peak)
         IN  IF first = -1 THEN PeakScan(ac, mid, hi, -1)
             ELSE PeakScan(ac, mid, hi, first)

\* A scan that starts one lag below minLag and ends one lag above
\* min(maxLag, size) - 1 (both loop bounds off by one).
PeakLag_OneLagWider(ac, sampleRate) ==
    PeakScan(ac, MinLag(sampleRate) - 1,
             Min(MaxLag(sampleRate), Len(ac)) + 1, -1)

\* Lines 68-73.
PeakLag(ac, sampleRate) ==
    PeakScan(ac, MinLag(sampleRate),
             Min(MaxLag(sampleRate), Len(ac)), -1)

\* Line 74.
PeakRejected(peakLag) == peakLag <= 0

\* Lines 77 and 79: ac[lag] ?? 0.
AcOrZero(ac, lag) ==
    IF lag >= 0 /\ lag < Len(ac) THEN ac[lag + 1] ELSE DZero

\* Line 80: y1 - 2 * y2 + y3.
Denom(y1, y2, y3) == DAdd(DSub(y1, DTimesPow2(y2, 1)), y3)

\* Line 81: denom ? (0.5 * (y1 - y3)) / denom : 0.  Zero and NaN are the
\* numbers that count as false.
ShiftBy(y1, y3, denom) ==
    IF denom.s = 0 \/ denom.s = 2 THEN DZero
    ELSE DDiv(DTimesPow2(DSub(y1, y3), -1), denom)
Shift(y1, y2, y3) == ShiftBy(y1, y3, Denom(y1, y2, y3))

\* Lines 77-82: the refined lag, a double.
TrueLag(ac, peakLag) ==
    DAdd(DInt(peakLag),
         Shift(AcOrZero(ac, peakLag - 1), ac[peakLag + 1],
               AcOrZero(ac, peakLag + 1)))

\* Line 84: sampleRate / trueLag; a zero lag gives Infinity.
Quotient(sampleRate, trueLag) == DDiv(DInt(sampleRate), trueLag)

\* A bounds check without its upper bound.
FreqRejected_NoUpper(f) ==
    \/ ~isFinite(f)
    \/ DLess(f, DInt(50))

\* Line 85: !isFinite(freq) || freq < 50 || freq > 1500.
FreqRejected(f) ==
    \/ ~isFinite(f)
    \/ DLess(f, DInt(50))
    \/ DLess(DInt(1500), f)

\* Line 85-86 for the quotient f of line 84.
PitchOfFreq(peakLag, f) ==
    IF FreqRejected(f)
    THEN [result |-> Null, exit |-> "bounds", peakLag |-> peakLag]
    ELSE [result |-> Some(f), exit |-> "freq", peakLag |-> peakLag]

\* Lines 74-86 for the peak lag of lines 63-73.
PitchAtPeak(ac, sampleRate, peakLag) ==
    IF PeakRejected(peakLag)
    THEN [result |-> Null, exit |-> "nopeak", peakLag |-> peakLag]
    ELSE PitchOfFreq(peakLag, Quotient(sampleRate, TrueLag(ac, peakLag)))

\* Lines 62-86: what the function does with the autocorrelation array.
\* result is Null or Some(the frequency, a double); exit names the return
\* statement taken.
PitchFromAc(ac, sampleRate) ==
    PitchAtPeak(ac, sampleRate, PeakLag(ac, sampleRate))

\* Lines 62-86 with what lines 46-61 left: the windowed buffer w and the
\* array ac.
Detected(w, ac, p) ==
    [result |-> p.result, exit |-> p.exit, buf |-> w, ac |-> ac,
     peakLag |-> p.peakLag]
DetectFromAc(w, ac, sampleRate) == Detected(w, ac, PitchFromAc(ac, sampleRate))

\* Lines 51-86 for the windowed buffer w.
DetectWindowed(w, sampleRate) ==
    IF RmsBelowThreshold(w)
    THEN [result |-> Null, exit |-> "silence", buf |-> w, ac |-> <<>>,
          peakLag |-> -1]
    ELSE DetectFromAc(w, AutoCorrelation(w), sampleRate)

\* Lines 46-87.  buf is the caller's buffer after the call (windowed in
\* place); ac is the autocorrelation array, empty when the function returned
\* before line 56.
detectPitchAutoCorrelation(buf, sampleRate) ==
    DetectWindowed(Windowed(buf), sampleRate)


(***************************************************************************)
(* Note helpers, lines 4-43                                                *)
(***************************************************************************)
A4 == 440
A4_MIDI == 69
\* The sharp sign of the source is written #.
NOTE_NAMES ==
    <<"C", "C#", "D", "D#", "E", "F", "F#", "G", "G#", "A", "A#", "B">>
\* freq is the decimal of the source in units of 1/FreqUnit Hz.
GUITAR_STD ==
    << [name |-> "E2", midi |-> 40, freq |-> 8240690],
       [name |-> "A2", midi |-> 45, freq |-> 11000000],
       [name |-> "D3", midi |-> 50, freq |-> 14683200],
       [name |-> "G3", midi |-> 55, freq |-> 19599800],
       [name |-> "B3", midi |-> 59, freq |-> 24694200],
       [name |-> "E4", midi |-> 64, freq |-> 32962800] >>

(***************************************************************************)
(* Math.log2, the log2 of base/ieee754.cc (FreeBSD's e_log2.c with the     *)
(* k_log1p of k_log.h).  The argument x = 2^k * (1 + f) is split with      *)
(* 1 + f in sqrt(2)/2 .. sqrt(2); log(1 + f) is f - f*f/2 + k_log1p(f),    *)
(* and the logarithm to base 2 is k plus that sum times 1/ln 2, the sum    *)
(* and 1/ln 2 each taken in a high and a low part.                         *)
(***************************************************************************)
\* Lg1, Lg3, Lg5, Lg7 and Lg2, Lg4, Lg6 of k_log.h.
Lg ==
    [odd |-> << [s |-> 1, m |-> <<44739242, 89478547>>, e |-> -53],
                [s |-> 1, m |-> <<38347922, 69374809>>, e |-> -54],
                [s |-> 1, m |-> <<48811154, 113968094>>, e |-> -55],
                [s |-> 1, m |-> <<39723611, 121524804>>, e |-> -55] >>,
     even |-> << [s |-> 1, m |-> <<53687091, 26737156>>, e |-> -54],
                 [s |-> 1, m |-> <<59652259, 93223087>>, e |-> -55],
                 [s |-> 1, m |-> <<41107770, 7915167>>, e |-> -55] >>]
\* 1/ln 2 = ivln2hi + ivln2lo.
ivln2 ==
    [hi |-> [s |-> 1, m |-> <<48408812, 85983232>>, e |-> -52],
     lo |-> [s |-> 1, m |-> <<48283525, 116367872>>, e |-> -85]]

\* k_log1p(f) with s = f / (2 + f), z = s * s and w = z * z:
\* s * (hfsq + R), R = z * (Lg1 + w * ( .. )) + w * (Lg2 + w * ( .. )).
KLog1pZ(s, z, hfsq) ==
    DMul(s, DAdd(hfsq, DAdd(DMul(z, Poly(DMul(z, z), Lg.odd, 1)),
                            DMul(DMul(z, z), Poly(DMul(z, z), Lg.even, 1)))))
k_log1p(f, hfsq) ==
    KLog1pZ(DDiv(f, DAdd(DInt(2), f)),
            DMul(DDiv(f, DAdd(DInt(2), f)), DDiv(f, DAdd(DInt(2), f))), hfsq)

\* SET_LOW_WORD(x, 0): the low 32 bits of the bits of x are cleared.
ClearLowWord(x) ==
    IF x.s = 0 \/ ~isFinite(x) THEN x
    ELSE IF x.e < -1094 THEN DZero
    ELSE IF x.e < -1074
    THEN [x EXCEPT !.m = LShl(LShr(x.m, -1042 - x.e), -1042 - x.e)]
    ELSE [x EXCEPT !.m = <<(x.m[1] \div 32) * 32, 0>>]

\* The mantissa of x > 0 as a double in sqrt(2)/2 .. sqrt(2): the exponent
\* field is 0x3fe when the high word of the fraction is 0x6a09c or more
\* ((hx + 0x95f64) & 0x100000), and 0x3ff below.
Log2Mantissa(x) ==
    [s |-> 1, m |-> x.m,
     e |-> IF x.m[1] \div 32 - 1048576 >= 434332 THEN -53 ELSE -52]

\* The last lines of log2: w = y + val_hi, val_lo += (y - w) + val_hi, and
\* the sum val_lo + w.
Log2Sum(y, val_hi, val_lo, w) ==
    DAdd(DAdd(val_lo, DAdd(DSub(y, w), val_hi)), w)
\* val_hi = hi * ivln2hi and val_lo = (lo + hi) * ivln2lo + lo * ivln2hi.
Log2Split(y, hi, lo) ==
    Log2Sum(y, DMul(hi, ivln2.hi),
            DAdd(DMul(DAdd(lo, hi), ivln2.lo), DMul(lo, ivln2.hi)),
            DAdd(y, DMul(hi, ivln2.hi)))
\* lo = (f - hi) - hfsq + r with r = k_log1p(f).
Log2Parts(y, f, hfsq, hi) ==
    Log2Split(y, hi, DAdd(DSub(DSub(f, hi), hfsq), k_log1p(f, hfsq)))
\* hi = f - hfsq without its low word.
Log2Hfsq(y, f, hfsq) == Log2Parts(y, f, hfsq, ClearLowWord(DSub(f, hfsq)))

\* Math.log2(x): -Infinity for 0, NaN below 0 and for NaN, +Infinity for
\* +Infinity, 0 for 1.  A subnormal x is scaled by 2^54 first, which the
\* normalised mantissa of this representation already stands for.  Then
\* y = k as a double, f = x - 1.0 for the mantissa x, and hfsq = 0.5 * f * f.
MathLog2(x) ==
    IF x.s = 0 THEN Infinite(-1)
    ELSE IF x.s = 3 THEN x
    ELSE IF x.s # 1 THEN NaN
    ELSE IF x = DInt(1) THEN DZero
    ELSE Log2Hfsq(DInt(x.e - Log2Mantissa(x).e),
                  DSub(Log2Mantissa(x), DInt(1)),
                  DMul(DTimesPow2(DSub(Log2Mantissa(x), DInt(1)), -1),
                       DSub(Log2Mantissa(x), DInt(1))))

(***************************************************************************)
(* Math.pow(2, y), line 33: the pow of the runtime's base/ieee754.cc,      *)
(* which follows fdlibm's e_pow.c except in the last division.  For the    *)
(* base 2, log2(2) is exactly 1, so that y * log2(x) is y, taken as its    *)
(* high part y1 (the low word cleared) and the rest; with n the integer    *)
(* nearest to y1, 2^y is 2^n * exp((y - n) * ln 2), the exponential from   *)
(* the polynomial P1 .. P5.                                                *)
(***************************************************************************)
\* P1 .. P5, and lg2, lg2_h and lg2_l of e_pow.c.
PowConst ==
    [P |-> << [s |-> 1, m |-> <<44739242, 89478462>>, e |-> -55],
              [s |-> -1, m |-> <<47721858, 113163667>>, e |-> -61],
              [s |-> 1, m |-> <<36359509, 119922220>>, e |-> -66],
              [s |-> -1, m |-> <<58173496, 97676273>>, e |-> -72],
              [s |-> 1, m |-> <<46591278, 46048464>>, e |-> -77] >>,
     lg2 |-> [s |-> 1, m |-> <<46516319, 117062127>>, e |-> -53],
     lg2_h |-> [s |-> 1, m |-> <<46516320, 0>>, e |-> -53],
     lg2_l |-> [s |-> -1, m |-> <<34311201, 78146617>>, e |-> -81]]

\* r = Divide(z * t1, (t1 - two) - (w + z * w)) and z = one - (r - z):
\* the runtime divides by the whole difference, where e_pow.c divides by
\* t1 - two and subtracts w + z * w from the quotient.
PowExp(z, w, t1) ==
    DSub(DInt(1),
         DSub(DDiv(DMul(z, t1),
                   DSub(DSub(t1, DInt(2)), DAdd(w, DMul(z, w)))),
              z))
\* w = v - (z - u), and t1 = z - t * (P1 + t * ( .. )) with t = z * z.
PowZ(u, v, z) ==
    PowExp(z, DSub(v, DSub(z, u)),
           DSub(z, DMul(DMul(z, z), Poly(DMul(z, z), PowConst.P, 1))))
\* u = t * lg2_h, v = (p_l - (t - p_h)) * lg2 + t * lg2_l and z = u + v.
PowT(p_l, p_h, t) ==
    PowZ(DMul(t, PowConst.lg2_h),
         DAdd(DMul(DSub(p_l, DSub(t, p_h)), PowConst.lg2),
              DMul(t, PowConst.lg2_l)),
         DAdd(DMul(t, PowConst.lg2_h),
              DAdd(DMul(DSub(p_l, DSub(t, p_h)), PowConst.lg2),
                   DMul(t, PowConst.lg2_l))))

\* n = [z + 0.5] of e_pow.c for z = y, 1/2 < |y| < 2^20: the high word of y
\* plus 1/2, cut to an integer; 0 when the high word is 0x3fe00000 at most.
PowWhole(y) ==
    IF HighWord(y) <= 1071644672 THEN 0
    ELSE y.s * ((y.m[1] \div 32 + Pow2(-y.e - 33)) \div Pow2(-y.e - 32))

\* Math.pow(2, y), the pow(2, y) of base/ieee754.cc: its special cases (0, +-1, 2, 0.5, NaN,
\* the infinities, overflow from 1024 and underflow from -1075 on), and
\* 2^n * exp((p_l + p_h) * ln 2) with p_l = y - y1, p_h = y1 - n and
\* t = p_l + p_h without its low word.
MathPow2(y) ==
    IF y.s = 0 THEN DInt(1)
    ELSE IF y.s = 2 THEN NaN
    ELSE IF y.s = 3 \/ (y.s = 1 /\ y.e >= -42) THEN Infinite(1)
    ELSE IF y.s = -3 \/ (y.s = -1 /\ ~DLess(DInt(-1075), y)) THEN DZero
    ELSE IF y = DInt(1) THEN DInt(2)
    ELSE IF y = DInt(-1) THEN DDiv(DInt(1), DInt(2))
    ELSE IF y = DInt(2) THEN DMul(DInt(2), DInt(2))
    ELSE IF y = DTimesPow2(DInt(1), -1) THEN DSqrt(DInt(2))
    ELSE DTimesPow2(
             PowT(DSub(y, ClearLowWord(y)),
                  DSub(ClearLowWord(y), DInt(PowWhole(y))),
                  ClearLowWord(DAdd(DSub(y, ClearLowWord(y)),
                                    DSub(ClearLowWord(y),
                                         DInt(PowWhole(y)))))),
             PowWhole(y))

\* Math.round(v) for a finite double |v| < 2^26: floor(v + 1/2).  t is
\* floor(2 * |v|).
MathRound(v) ==
    LET t == LShr(v.m, -v.e - 1)[2]
    IN  IF v.s = 0 \/ v.e < -54 THEN 0
        ELSE IF v.s = 1 THEN (t + 1) \div 2
        ELSE IF LShl(<<0, t>>, -v.e - 1) = v.m THEN -(t \div 2)
        ELSE -((t + 1) \div 2)

\* Lines 29-31: Math.round(12 * Math.log2(freq / A4) + A4_MIDI), for a
\* double freq > 0.
freqToMidi(freq) ==
    MathRound(DAdd(DMul(DInt(12), MathLog2(DDiv(freq, DInt(A4)))),
                   DInt(A4_MIDI)))

\* Lines 32-34: A4 * Math.pow(2, (midi - A4_MIDI) / 12).
midiToFreq(midi) ==
    DMul(DInt(A4),
         MathPow2(DDiv(DInt(midi - A4_MIDI), DInt(12))))

\* The % of JavaScript: the remainder takes the sign of the dividend.
JsRem(a, n) == IF a >= 0 THEN a % n ELSE -((-a) % n)

\* Line 36: the index into NOTE_NAMES.
NoteIndex(midi) == JsRem(midi + 1200, 12)

\* Lines 35-39.  An index outside the array reads undefined, which the
\* template string prints as "undefined".
midiToName(midi) ==
    LET i == NoteIndex(midi)
        name == IF i >= 0 /\ i < Len(NOTE_NAMES) THEN NOTE_NAMES[i + 1]
                ELSE "undefined"
        octave == (midi \div 12) - 1
    IN  name \o ToString(octave)

\* Lines 40-43: Math.round(1200 * Math.log2(freq / ideal)) with ideal =
\* midiToFreq(midi), for a double freq > 0.
centsOff(freq, midi) ==
    MathRound(DMul(DInt(1200), MathLog2(DDiv(freq, midiToFreq(midi)))))

\* The doubles of the freq column of GUITAR_STD.
StringFreq == [k \in 1..Len(GUITAR_STD) |-> DUnits(GUITAR_STD[k].freq)]

\* Lines 588 and 590: Math.abs(f - s.freq) for the entry k.
StringDiff(x, k) == DAbs(DSub(x, StringFreq[k]))

RECURSIVE NearestScan_LastWins(_, _, _)
\* A scan whose comparison is <=: the last of several nearest entries wins.
NearestScan_LastWins(x, k, best) ==
    IF k > Len(GUITAR_STD) THEN best
    ELSE NearestScan_LastWins(x, k + 1,
             IF ~DLess(StringDiff(x, best), StringDiff(x, k))
             THEN k ELSE best)

RECURSIVE NearestScan(_, _, _)
\* Lines 589-595: the scan of GUITAR_STD from entry k on; best is the index
\* of the best entry so far, x the detected frequency (a double).
NearestScan(x, k, best) ==
    IF k > Len(GUITAR_STD) THEN best
    ELSE NearestScan(x, k + 1,
             IF DLess(StringDiff(x, k), StringDiff(x, best))
             THEN k ELSE best)

\* Lines 587-596: the name loop() publishes as nearestString, for the
\* detected frequency f (a double).
NearestString(f) == GUITAR_STD[NearestScan(f, 1, 1)].name

(***************************************************************************)
(* State                                                                   *)
(***************************************************************************)
VARIABLES
    mounted,        \* the component is mounted (its buttons can be clicked)
    webAudio,       \* window.AudioContext || webkitAudioContext exists
    running,        \* useState, line 499
    freq,           \* useState, line 500: Null or Some(frequency)
    midi,           \* useState, line 501: Null or Some(midi number)
    note,           \* useState, line 502
    offset,         \* useState, line 503 (cents)
    nearestString,  \* useState, line 504
    audioCtxRef,    \* useRef, line 506: Null or Some(sampleRate of the context)
    analyserRef,    \* useRef, line 507: Null or Some(fftSize)
    bufferRef,      \* useRef, line 508: Null or Some(the Float32Array's content)
    rafRef,         \* useRef, line 509: Null or Some(animation frame id)
    streamRef,      \* useRef, line 510: Null or Some(index into streams)
    streams,        \* every MediaStream getUserMedia returned: "live"/"stopped"
    pending,        \* start() calls suspended at the await of line 516
    started,        \* start() calls made so far
    frames,         \* ids of the requested animation frames not yet run
    input,          \* the window (float32 values) and rate of the last
                    \*   detection: Null or Some([samples, rate])
    det,            \* what detectPitchAutoCorrelation did with it: Null or Some
    prior,          \* the freq state the last detection found published
    sine,           \* Null, or Some(f) when input is a sine of f Hz
    helper,         \* a direct call of a note helper: [fn, arg, ret]
    stoppedClean,   \* stop() has run and start() was not called since
    tickedSinceStop \* a loop() tick ran the detector since the last stop()

display == <<freq, midi, note, offset, nearestString>>
refs == <<audioCtxRef, analyserRef, bufferRef, rafRef, streamRef>>
session == <<mounted, webAudio, running, streams, pending, started, frames,
             stoppedClean, tickedSinceStop>>
vars == <<display, refs, session, input, det, prior, sine, helper>>

\* Lines 598-602 and 565-569: the values of a tick without detection (the
\* dash of the source and the sharp sign of NOTE_NAMES are written in ASCII).
NoNote == ""
NoString == "-"

(***************************************************************************)
(* Bounds of the model                                                     *)
(***************************************************************************)
\* analyser.fftSize, line 537, is 4096 in the source; the model runs the
\* session on windows of FftSize samples.
FftSize == 7
\* The number of start() calls a behaviour makes.
MaxStarts == 2

\* Sample values in units of 1/SampleUnit: 8/1024 is below the silence
\* threshold on its own, 16/1024 is above it.
Amps == {-16, 0, 8, 16}
\* Window lengths: 0, 1 and 2 are degenerate, the others have Hann
\* coefficients that are multiples of 1/4.
Sizes == {0, 1, 2, 3, 4, 5}
\* The longer windows take their samples from LongAmps.
LongSize == 7
LongAmps == {-16, 16}
\* Windows whose refined lag is 0 (at 2000 Hz), whose frequency is below
\* 50 Hz (at 1000 Hz), exactly 1500 Hz (at 3000 Hz) and above 1500 Hz (at
\* 2000 Hz).
EdgeWindows == { <<-32, -32, -32, -16, -32, -16, -32>>,
                 <<-32, -32, -16, -16, 8, 32, -32>>,
                 <<-32, -32, 0, -32, -32, 0, -32>>,
                 <<0, -16, 32, 8, 8, 0, 0>> }
Windows ==
    UNION {[1..n -> Amps] : n \in Sizes}
        \cup [1..LongSize -> LongAmps] \cup EdgeWindows
Rates == {-1000, 0, 700, 1000, 2000, 3000}
\* Windows longer than maxLag at 700 and 1000 Hz (maxLag 10 and 14): every
\* sample is 0 but the second, the third and the two before the last, which
\* are -1, 0 or 1, so that the autocorrelation is not 0 at the lags 1 and
\* WideSize - 5 .. WideSize - 3 at most.
WideSize == 17
WideAmps == {-1024, 0, 1024}
WideWindows ==
    { [k \in 1..WideSize |->
          IF k = 2 THEN a[1] ELSE IF k = 3 THEN a[2]
          ELSE IF k = WideSize - 2 THEN a[3]
          ELSE IF k = WideSize - 1 THEN a[4] ELSE 0] :
      a \in [1..4 -> WideAmps] }


\* What the analyser hears during a session: square waves of half-period
\* `half` samples and amplitude `amp`; amplitude 0 is silence.
Tones == { [half |-> 1, amp |-> 0], [half |-> 1, amp |-> 16],
           [half |-> 2, amp |-> 16] }
SquareWave(tone, n) ==
    Float32Array([k \in 1..n |->
        IF ((k - 1) \div tone.half) % 2 = 0 THEN tone.amp ELSE -tone.amp])
\* ctx.sampleRate of the contexts a session creates.
SessionRates == {2000, 3000}

(***************************************************************************)
(* loop(), lines 572-606                                                   *)
(***************************************************************************)
\* A tick that does not refill the buffer: it analyses what the previous
\* tick left in it.
TimeDomainData_Stale(buf, samples) == buf

\* Line 578, analyser.getFloatTimeDomainData(buf): the buffer after the copy
\* of the current time-domain samples into it.
TimeDomainData(buf, samples) ==
    Stored([k \in 1..Len(buf) |->
               IF k <= Len(samples) THEN samples[k] ELSE buf[k]])

\* Lines 581-596: the state loop() publishes for the frequency f and its
\* MIDI number m.
NoteDisplay(f, m) ==
    [freq |-> f, midi |-> Some(m), note |-> midiToName(m),
     offset |-> centsOff(f[1], m), nearestString |-> NearestString(f[1])]

\* Lines 580-603: the state loop() publishes for the detector's result f.
LoopDisplay(f) ==
    IF f # Null THEN NoteDisplay(f, freqToMidi(f[1]))
    ELSE [freq |-> Null, midi |-> Null, note |-> NoNote, offset |-> 0,
          nearestString |-> NoString]

\* The five setters of lines 565-569, 582-585 and 596-602.  React drops the
\* state updates of a component that is no longer mounted.
SetDisplay(d) ==
    IF mounted
    THEN /\ freq' = d.freq
         /\ midi' = d.midi
         /\ note' = d.note
         /\ offset' = d.offset
         /\ nearestString' = d.nearestString
    ELSE UNCHANGED display

\* Lines 580-603 for the detection d of line 579.
PublishDetection(samples, rate, d) ==
    /\ input' = Some([samples |-> samples, rate |-> rate])
    /\ det' = Some(d)
    /\ prior' = freq
    /\ SetDisplay(LoopDisplay(d.result))

\* Lines 578-603 on the buffer buf with the analyser delivering `samples`.
Detection(buf, samples, rate) ==
    PublishDetection(samples, rate,
        detectPitchAutoCorrelation(TimeDomainData(buf, samples), rate))

\* Line 576.
RefsMissing == analyserRef = Null \/ bufferRef = Null \/ audioCtxRef = Null

\* loop() called with the frames `fs` pending: lines 573-605.
LoopFrom(fs, buf, rate, samples) ==
    LET \* line 605: requestAnimationFrame returns an id no pending frame has
        id == CHOOSE n \in 1..(Cardinality(fs) + 1) : n \notin fs
    IN  /\ Detection(buf, samples, rate)
        \* the detector has windowed the buffer of bufferRef in place
        /\ bufferRef' = Some(det'[1].buf)
        /\ rafRef' = Some(id)
        /\ frames' = fs \cup {id}
        /\ tickedSinceStop' = TRUE

\* An animation frame runs loop(); without the refs it returns at line 576.
FrameIdle(id) ==
    /\ id \in frames
    /\ RefsMissing
    /\ frames' = frames \ {id}
    /\ UNCHANGED <<display, refs, mounted, webAudio, running, streams, pending,
                   started, stoppedClean, tickedSinceStop, input, det, prior,
                   sine, helper>>

FrameTick(id, tone) ==
    /\ id \in frames
    /\ ~RefsMissing
    /\ LoopFrom(frames \ {id}, bufferRef[1], audioCtxRef[1],
                SquareWave(tone, analyserRef[1]))
    /\ UNCHANGED <<audioCtxRef, analyserRef, streamRef, mounted, webAudio,
                   running, streams, pending, started, stoppedClean, sine,
                   helper>>

(***************************************************************************)
(* start(), lines 512-549                                                  *)
(***************************************************************************)
\* Lines 512-516: the button of line 321 calls start() while running is
\* false; the call suspends at the await.
Start ==
    /\ mounted
    /\ ~running
    /\ started < MaxStarts
    /\ started' = started + 1
    /\ pending' = pending + 1
    /\ stoppedClean' = FALSE
    /\ UNCHANGED <<display, refs, mounted, webAudio, running, streams, frames,
                   tickedSinceStop, input, det, prior, sine, helper>>

\* getUserMedia rejects: the catch of lines 545-548.
StartRejected ==
    /\ pending > 0
    /\ pending' = pending - 1
    /\ UNCHANGED <<display, refs, mounted, webAudio, running, streams, started,
                   frames, stoppedClean, tickedSinceStop, input, det, prior,
                   sine, helper>>

\* getUserMedia resolves, no AudioContext class: lines 523-531.
StartNoWebAudio ==
    /\ pending > 0
    /\ ~webAudio
    /\ pending' = pending - 1
    /\ streams' = Append(streams, "live")
    /\ streamRef' = Some(Len(streams) + 1)
    /\ UNCHANGED <<display, audioCtxRef, analyserRef, bufferRef, rafRef,
                   mounted, webAudio, running, started, frames, stoppedClean,
                   tickedSinceStop, input, det, prior, sine, helper>>

\* getUserMedia resolves and the constructor of line 533 throws: line 523,
\* then the catch.
StartContextFails ==
    /\ pending > 0
    /\ webAudio
    /\ pending' = pending - 1
    /\ streams' = Append(streams, "live")
    /\ streamRef' = Some(Len(streams) + 1)
    /\ UNCHANGED <<display, audioCtxRef, analyserRef, bufferRef, rafRef,
                   mounted, webAudio, running, started, frames, stoppedClean,
                   tickedSinceStop, input, det, prior, sine, helper>>

\* getUserMedia resolves, the context is created and stored (lines 533-534)
\* and createMediaStreamSource, createAnalyser or connect throws (lines
\* 535-539): the catch leaves the context in audioCtxRef.
StartGraphFails(rate) ==
    /\ pending > 0
    /\ webAudio
    /\ pending' = pending - 1
    /\ streams' = Append(streams, "live")
    /\ streamRef' = Some(Len(streams) + 1)
    /\ audioCtxRef' = Some(rate)
    /\ UNCHANGED <<display, analyserRef, bufferRef, rafRef, mounted, webAudio,
                   running, started, frames, stoppedClean, tickedSinceStop,
                   input, det, prior, sine, helper>>

\* getUserMedia resolves and lines 523-544 run: the refs are set, running
\* becomes true (React drops the update once the component is unmounted) and
\* loop() runs its first tick.
StartResolved(rate, tone) ==
    /\ pending > 0
    /\ webAudio
    /\ pending' = pending - 1
    /\ streams' = Append(streams, "live")
    /\ streamRef' = Some(Len(streams) + 1)
    /\ audioCtxRef' = Some(rate)
    /\ analyserRef' = Some(FftSize)
    /\ running' = IF mounted THEN TRUE ELSE running
    /\ LoopFrom(frames, Float32Array([k \in 1..FftSize |-> 0]), rate,
                SquareWave(tone, FftSize))
    /\ UNCHANGED <<mounted, webAudio, started, stoppedClean, sine, helper>>

(***************************************************************************)
(* stop(), lines 551-570, and the unmount cleanup, line 608                *)
(***************************************************************************)
StopBody ==
    /\ running' = FALSE
    /\ frames' = IF rafRef # Null THEN frames \ {rafRef[1]} ELSE frames
    /\ rafRef' = Null
    /\ streams' = IF streamRef # Null
                  THEN [streams EXCEPT ![streamRef[1]] = "stopped"]
                  ELSE streams
    /\ streamRef' = Null
    /\ audioCtxRef' = Null
    /\ analyserRef' = Null
    /\ bufferRef' = Null
    /\ SetDisplay(LoopDisplay(Null))
    /\ stoppedClean' = TRUE
    /\ tickedSinceStop' = FALSE

\* The button of line 321 calls stop() while running is true.
Stop ==
    /\ mounted
    /\ running
    /\ StopBody
    /\ UNCHANGED <<mounted, webAudio, pending, started, input, det, prior, sine,
                   helper>>

\* Line 608: the cleanup calls stop() when the component unmounts.
Unmount ==
    /\ mounted
    /\ mounted' = FALSE
    /\ StopBody
    /\ UNCHANGED <<webAudio, pending, started, input, det, prior, sine, helper>>

(***************************************************************************)
(* Specifications                                                          *)
(***************************************************************************)
Idle ==
    /\ mounted = TRUE
    /\ running = FALSE
    /\ freq = Null
    /\ midi = Null
    /\ note = NoNote
    /\ offset = 0
    /\ nearestString = NoString
    /\ audioCtxRef = Null
    /\ analyserRef = Null
    /\ bufferRef = Null
    /\ rafRef = Null
    /\ streamRef = Null
    /\ streams = <<>>
    /\ pending = 0
    /\ started = 0
    /\ frames = {}
    /\ det = Null
    /\ prior = Null
    /\ stoppedClean = FALSE
    /\ tickedSinceStop = FALSE

NoCall == [fn |-> "none", arg |-> 0, ret |-> Null]

\* The session: the component after its first render.
Init ==
    /\ Idle
    /\ webAudio \in BOOLEAN
    /\ input = Null
    /\ sine = Null
    /\ helper = NoCall

Next ==
    \/ Start
    \/ StartRejected
    \/ StartNoWebAudio
    \/ StartContextFails
    \/ \E rate \in SessionRates : StartGraphFails(rate)
    \/ \E rate \in SessionRates, tone \in Tones : StartResolved(rate, tone)
    \/ \E id \in frames : FrameIdle(id)
    \/ \E id \in frames, tone \in Tones : FrameTick(id, tone)
    \/ Stop
    \/ Unmount

Spec == Init /\ [][Next]_vars

\* The detector and the publishing step on one window: lines 578-603.
Analyse ==
    /\ input # Null
    /\ det = Null
    /\ Detection(input[1].samples, input[1].samples, input[1].rate)
    /\ UNCHANGED <<refs, session, sine, helper>>

InitDetect ==
    /\ Idle
    /\ webAudio = TRUE
    /\ input \in {Some([samples |-> Float32Array(w), rate |-> r]) :
                     w \in Windows, r \in Rates}
    /\ sine = Null
    /\ helper = NoCall

SpecDetect == InitDetect /\ [][Analyse]_vars

\* The same step on the windows of Windows and on the wide windows.
InitRange ==
    /\ Idle
    /\ webAudio = TRUE
    /\ input \in {Some([samples |-> Float32Array(w), rate |-> r]) :
                     w \in Windows \cup WideWindows, r \in Rates}
    /\ sine = Null
    /\ helper = NoCall

SpecRange == InitRange /\ [][Analyse]_vars


\* A sine of f Hz and amplitude 1 sampled at `rate`, n samples from phase
\* 0: Math.sin((2 * Math.PI * f * i) / rate) stored as float32.
SineWindow(f, n, rate) ==
    Stored([k \in 1..n |->
               Float32(MathSin(DDiv(DMul(DMul(DTimesPow2(PI, 1), DInt(f)),
                                         DInt(k - 1)),
                                    DInt(rate))))])

\* The least n whose window holds `periods` periods of f Hz at `rate`.
PeriodsLength(periods, f, rate) == -((-(periods * rate)) \div f)

\* Sines of 902 .. 1000 Hz at 44100 Hz in windows of two and of three
\* periods.
SineRates == {44100}
SineFreqs == {902 + 4 * k : k \in 0..24} \cup {1000}
SinePeriods == {2, 3}

InitSine ==
    /\ Idle
    /\ webAudio = TRUE
    /\ \E f \in SineFreqs, p \in SinePeriods, rate \in SineRates :
          /\ sine = Some(f)
          /\ input = Some([samples |->
                              SineWindow(f, PeriodsLength(p, f, rate), rate),
                           rate |-> rate])
    /\ helper = NoCall

SpecSine == InitSine /\ [][Analyse]_vars

\* Frequencies (decimals, in units of 1/FreqUnit Hz) and MIDI numbers the helpers are
\* called with: a grid over the detector's 50..1500 Hz, 82.0 Hz, the
\* midpoints between neighbouring strings, and frequencies next to half a
\* semitone and to half a cent; the MIDI numbers reach below -1200.
HelperFreqs ==
    {5000000 + 250000 * k : k \in 0..580}
        \cup {8200000, 9620345, 12841600, 17141500, 22147000, 28828500}
        \cup {8986535, 11995585, 14265235, 5047894, 5065419, 5165883}
HelperMidis == -1205..130

\* Lines 581-596 for a detected frequency f, the double of the decimal
\* helper.arg / FreqUnit.
PublishDetected ==
    /\ helper.fn = "publish"
    /\ helper.ret = Null
    /\ SetDisplay(LoopDisplay(Some(DUnits(helper.arg))))
    /\ helper' = [helper EXCEPT
                     !.ret = Some(NearestString(DUnits(helper.arg)))]
    /\ UNCHANGED <<refs, session, input, det, prior, sine>>

\* midiToName(m), lines 35-39 (called at lines 211 and 584).
NameNote ==
    /\ helper.fn = "midiToName"
    /\ helper.ret = Null
    /\ helper' = [helper EXCEPT !.ret = Some(midiToName(helper.arg))]
    /\ UNCHANGED <<display, refs, session, input, det, prior, sine>>

InitHelpers ==
    /\ Idle
    /\ webAudio = TRUE
    /\ input = Null
    /\ sine = Null
    /\ helper \in {[fn |-> "publish", arg |-> f, ret |-> Null] :
                       f \in HelperFreqs}
                  \cup {[fn |-> "midiToName", arg |-> m, ret |-> Null] :
                       m \in HelperMidis}

NextHelpers == PublishDetected \/ NameNote

SpecHelpers == InitHelpers /\ [][NextHelpers]_vars


(***************************************************************************)
(* Claims                                                                  *)
(***************************************************************************)
\* The window, the rate and the detector's record of the analysed tick.
InSamples == input[1].samples
InRate == input[1].rate
Det == det[1]
Analysed == input # Null /\ det # Null

\* The float32 x, a multiple of 2^-12, in units of 2^-12.
InBufUnits(x) == IF x.s = 0 THEN 0 ELSE x.s * LShr(x.m, -(x.e + 12))[2]

RECURSIVE SquaresUpTo(_, _)
\* The sum of the squares of the first n values of w, in units of 2^-24.
SquaresUpTo(w, n) ==
    IF n = 0 THEN 0
    ELSE SquaresUpTo(w, n - 1) + InBufUnits(w[n]) * InBufUnits(w[n])

\* The mean square of the Hann-windowed window is below 0.008^2 = 64 / 10^6:
\* sum * 10^6 < 64 * 2^24 * N, both sides divided by 64.  The windowed
\* values of the windows of Windows are multiples of 2^-12.
QuietWindow(samples) ==
    SquaresUpTo(Windowed(samples), Len(samples)) * 15625
        < 16777216 * Len(samples)

\* C1: a window of at least 3 samples whose Hann-windowed RMS is below 0.008
\* makes detectPitchAutoCorrelation return null at the energy gate, with no
\* autocorrelation value computed, and the tick publishes no frequency.
C1_SilenceGate ==
    (Analysed /\ Len(InSamples) >= 3 /\ QuietWindow(InSamples))
        => /\ Det.exit = "silence"
           /\ Det.result = Null
           /\ Det.ac = <<>>
           /\ freq = Null

\* A window that is not all zero was analysed and stopped at the gate.
C1_Witness ==
    /\ Analysed
    /\ Len(InSamples) >= 3
    /\ QuietWindow(InSamples)
    /\ \E k \in 1..Len(InSamples) : Windowed(InSamples)[k].s # 0
    /\ Det.exit = "silence"

\* C2: the value handed to the caller is null or a finite double f with
\* 50 <= f <= 1500, and the tick publishes exactly that double; a refined lag
\* that is zero or negative, or a quotient outside the bounds, ends in null.
C2_ResultInBounds ==
    Analysed =>
        /\ \/ Det.result = Null
           \/ /\ isFinite(Det.result[1])
              /\ ~DLess(Det.result[1], DInt(50))
              /\ ~DLess(DInt(1500), Det.result[1])
        /\ freq = Det.result
        /\ (Det.exit \in {"silence", "nopeak", "bounds"}) => Det.result = Null
        /\ (Det.exit \notin {"silence", "nopeak"}
              /\ \/ TrueLag(Det.ac, Det.peakLag).s \in {-3, -1, 0}
                 \/ DLess(DInt(1500),
                          Quotient(InRate, TrueLag(Det.ac, Det.peakLag)))
                 \/ DLess(Quotient(InRate, TrueLag(Det.ac, Det.peakLag)),
                          DInt(50)))
             => Det.result = Null

\* A refined lag of exactly 0, whose quotient is infinite, was downgraded.
C2_Witness ==
    /\ Analysed
    /\ Det.exit = "bounds"
    /\ Det.peakLag > 0
    /\ TrueLag(Det.ac, Det.peakLag).s = 0
    /\ Det.result = Null
    /\ freq = Null

\* The state a tick publishes for the frequency r (Null: no detection),
\* field by field.
Publishes(r) ==
    IF r # Null
    THEN /\ freq = r
         /\ midi = Some(freqToMidi(r[1]))
         /\ note = midiToName(freqToMidi(r[1]))
         /\ offset = centsOff(r[1], freqToMidi(r[1]))
         /\ nearestString = NearestString(r[1])
    ELSE /\ freq = Null
         /\ midi = Null
         /\ note = ""
         /\ offset = 0
         /\ nearestString = NoString

\* C3: after a tick of loop() the five published fields are determined by
\* that tick's window and sample rate alone, whatever was published before:
\* they are the fields of the frequency detected in that window, or the
\* defaults when nothing is detected in it.
C3_DisplayFromTickOnly ==
    (mounted /\ tickedSinceStop /\ Analysed)
        => Publishes(detectPitchAutoCorrelation(InSamples, InRate).result)

\* A tick that found a frequency published replaced it: by another frequency
\* or by the defaults.
C3_Witness ==
    /\ mounted
    /\ tickedSinceStop
    /\ Analysed
    /\ prior # Null
    /\ freq # prior
    /\ Publishes(Det.result)

\* The lags the scan visits, and those whose value is greater than -Infinity.
ScanRange == MinLag(InRate)..(Min(MaxLag(InRate), Len(InSamples)) - 1)
Candidates ==
    {lag \in ScanRange :
        lag >= 0 /\ lag < Len(Det.ac)
            /\ DLess(Infinite(-1), Det.ac[lag + 1])}
\* lag is the smallest lag of maximal value among the candidates.
FirstMax(lag) ==
    /\ lag \in Candidates
    /\ \A m \in Candidates : ~DLess(Det.ac[lag + 1], Det.ac[m + 1])
    /\ \A m \in Candidates :
          m < lag => DLess(Det.ac[m + 1], Det.ac[lag + 1])
PastGate == Analysed /\ Det.exit # "silence"

\* C4 as amended: past the energy gate, the peak-picking stage returns null
\* exactly when no lag in [minLag, min(maxLag, N)) has a value greater than
\* -Infinity or the first maximal lag of that range is lag 0; otherwise
\* peakLag is the first maximal lag and the function goes on to refinement.
C4_PeakPicking ==
    PastGate =>
        /\ Det.exit = "nopeak" <=> (Candidates = {} \/ FirstMax(0))
        /\ Candidates = {} => Det.peakLag = -1
        /\ Candidates # {} => FirstMax(Det.peakLag)
        /\ Det.exit \in {"nopeak", "bounds", "freq"}

\* Two lags of the range tie for the maximum and the smaller one is peakLag.
C4_Witness ==
    /\ PastGate
    /\ Det.exit \in {"bounds", "freq"}
    /\ FirstMax(Det.peakLag)
    /\ \E m \in Candidates :
          m > Det.peakLag /\ Det.ac[m + 1] = Det.ac[Det.peakLag + 1]

\* C4 as stated: null exactly when no lag of the range has a value.
C4_NullOnlyOnEmptyRange ==
    PastGate =>
        /\ Det.exit = "nopeak" <=> Candidates = {}
        /\ Candidates # {} => FirstMax(Det.peakLag)

\* C5: a sine of f Hz at 44100 Hz in a window of at least two periods is
\* detected within 0.5 % of f: 200 * |result - f| <= f.
C5_SineWithinHalfPercent ==
    (sine # Null /\ det # Null)
        => /\ Det.result # Null
           /\ ~DLess(DInt(sine[1]),
                     DMul(DInt(200),
                          DAbs(DSub(Det.result[1], DInt(sine[1])))))

\* C6: a window of at most 2 samples or a sample rate that is not positive
\* never gets a per-tick classification.
C6_InvalidConfigRejected ==
    (input # Null /\ (Len(InSamples) <= 2 \/ InRate <= 0)) => det = Null

\* The distance of the published frequency to entry k of the table:
\* Math.abs(f - s.freq) of line 590.
Distance(k) == StringDiff(DUnits(helper.arg), k)
Published == helper.fn = "publish" /\ helper.ret # Null

\* C7: the string a detected tick publishes is an entry at minimal distance
\* from the frequency, the first such entry in table order; 82.0 Hz gives E2.
C7_NearestStringFirstWins ==
    Published =>
        /\ \E k \in 1..Len(GUITAR_STD) :
              /\ nearestString = GUITAR_STD[k].name
              /\ \A j \in 1..Len(GUITAR_STD) :
                    ~DLess(Distance(j), Distance(k))
              /\ \A j \in 1..(k - 1) : DLess(Distance(k), Distance(j))
        /\ helper.arg = 8200000 => nearestString = "E2"

\* A frequency halfway between two neighbouring strings got the first one.
C7_Witness ==
    /\ Published
    /\ \E j, k \in 1..Len(GUITAR_STD) :
          /\ j < k
          /\ Distance(j) = Distance(k)
          /\ \A i \in 1..Len(GUITAR_STD) : ~DLess(Distance(i), Distance(j))
          /\ nearestString = GUITAR_STD[j].name

\* C8: for every integer midi the index is in 0..11 and midiToName returns a
\* note name followed by the octave floor(midi / 12) - 1; 69 is A4, 60 is C4.
C8_NameOfAnyMidi ==
    (helper.fn = "midiToName" /\ helper.ret # Null) =>
        /\ NoteIndex(helper.arg) \in 0..11
        /\ \E i \in 1..Len(NOTE_NAMES) :
              helper.ret[1]
                  = NOTE_NAMES[i] \o ToString((helper.arg \div 12) - 1)
        /\ helper.arg = 69 => helper.ret[1] = "A4"
        /\ helper.arg = 60 => helper.ret[1] = "C4"

\* The array ac with v at every lag outside lo .. hi - 1.
MaskOutside(ac, lo, hi, v) ==
    [k \in 1..Len(ac) |-> IF k - 1 >= lo /\ k - 1 < hi THEN ac[k] ELSE v]
MaskValues == {DSample(-6), DZero, DSample(6)}
RangeEnd == Min(MaxLag(InRate), Len(InSamples))
PitchOf(ac) == PitchFromAc(ac, InRate)
\* What lines 62-86 made of the array of the analysed tick.
DetPitch == [result |-> Det.result, exit |-> Det.exit, peakLag |-> Det.peakLag]
\* The array of the tick with v outside the range, and with v outside the
\* range and the two lags next to it.
RangeOnly(v) == MaskOutside(Det.ac, MinLag(InRate), RangeEnd, v)
RangeAndNext(v) == MaskOutside(Det.ac, MinLag(InRate) - 1, RangeEnd + 1, v)

\* C9 as amended: the peak lag depends only on the values at the lags of
\* [minLag, min(maxLag, N)); the refined lag and the result depend on these
\* and on the two neighbours of the peak, ac[minLag - 1] and
\* ac[min(maxLag, N)] included when the peak is at an end of the range; a
\* neighbour outside the array counts as 0.
C9_OnlyRangeAndNeighboursUsed ==
    PastGate =>
        /\ \A v \in MaskValues :
              /\ PeakLag(RangeOnly(v), InRate) = Det.peakLag
              /\ PitchOf(RangeAndNext(v)) = DetPitch
              /\ Det.peakLag > 0
                    => TrueLag(RangeAndNext(v), Det.peakLag)
                          = TrueLag(Det.ac, Det.peakLag)
        /\ Det.peakLag > 0
              => TrueLag(Det.ac \o <<DZero>>, Det.peakLag)
                    = TrueLag(Det.ac, Det.peakLag)

\* The peak is the last lag of the range, its right neighbour is a lag of
\* the array at min(maxLag, N) whose value is not 0, and another value there
\* gives another refined lag and another frequency.
C9_Witness ==
    /\ PastGate
    /\ Det.exit = "freq"
    /\ Det.peakLag = RangeEnd - 1
    /\ RangeEnd < Len(Det.ac)
    /\ Det.ac[RangeEnd + 1].s # 0
    /\ \E v \in MaskValues :
          /\ PeakLag(RangeOnly(v), InRate) = Det.peakLag
          /\ TrueLag(RangeOnly(v), Det.peakLag)
                # TrueLag(Det.ac, Det.peakLag)
          /\ PitchOf(RangeOnly(v)).result # Det.result
          /\ PitchOf(RangeAndNext(v)) = DetPitch

\* C9 as stated: arrays that agree on the range give the same peak lag, the
\* same refined lag and the same result.
C9_OnlyRangeUsed ==
    PastGate =>
        \A v \in MaskValues :
            /\ PitchOf(RangeOnly(v)) = DetPitch
            /\ Det.peakLag > 0
                  => TrueLag(RangeOnly(v), Det.peakLag)
                        = TrueLag(Det.ac, Det.peakLag)

\* C10: after stop(), and until start() is called again, running stays false
\* and no tick of loop() runs the detector.
C10_StaysStopped ==
    stoppedClean => (running = FALSE /\ ~tickedSinceStop)

\* Every stream getUserMedia has returned had its tracks stopped.
AllStreamsStopped == \A i \in 1..Len(streams) : streams[i] = "stopped"
\* The step is a run of stop(): the Stop button or the unmount cleanup.
StopStep == (running /\ ~running') \/ (mounted /\ ~mounted')

\* C11: when stop() returns and no start() call is in flight, no stream
\* acquired by an earlier start() call is still live.
C11_NoLiveStreamAfterStop ==
    [][(StopStep /\ pending = 0) => AllStreamsStopped']_vars

=============================================================================
